---- MODULE Spec2Model ----
(***************************************************************************)
(* Ingestion pipeline for syllabus PDFs (notebook cells 2-7): metadata     *)
(* extraction, section splitting, chunk cleaning, chunk assembly and the   *)
(* driver that inserts the chunks into one collection per embedding model. *)
(*                                                                         *)
(* Text is modelled as a sequence of lexemes; the text itself is the       *)
(* concatenation Join(s) of the lexemes.  Every lexeme is the literal      *)
(* substring it stands for, so regular-expression matching is computed on  *)
(* lexeme boundaries.                                                      *)
(***************************************************************************)
EXTENDS Integers, Sequences, FiniteSets, TLC

VARIABLES
    pc,         \* position of the run
    driver,     \* "all": process_all_pdfs_in_directory,
                \* "single": process_pdf_and_add_to_collections
    dir_kind,   \* what pdf_dir names: "missing", "file" or "dir"
    listing,    \* os.listdir(pdf_dir): the directory's children, in listing order
    store,      \* the persistent store: name of each existing collection -> its records
    collections,\* the handles setup_chromadb returned (collection names)
    pdf_files,  \* the filtered document list
    doc_idx,    \* index of the current document in pdf_files
    text,       \* raw text of the current document (lexemes), or Null
    source,     \* filename of the current document
    metadata,   \* document-level metadata returned by process_pdf_content
    chunks,     \* chunk list returned by process_pdf_content
    codigo,     \* the codigo the driver uses for ids and record metadata
    model_idx,  \* index of the current (model, collection) pair
    chunk_idx,  \* index of the current chunk (1-based; the code's i is chunk_idx - 1)
    chunks_por_disciplina,  \* the mapping the directory driver builds
    result,     \* the value returned by the driver, Null before it returns
    log,        \* console lines that report a failure or a diagnostic
    outcome,    \* history: what happened to each document of pdf_files
    assembled,  \* history: indices of the documents given to process_pdf_content
    prior,      \* history: the store as the run found it
    call        \* arguments of a text function called on its own, else Null

vars == <<pc, driver, dir_kind, listing, store, collections, pdf_files, doc_idx,
          text, source, metadata, chunks, codigo, model_idx, chunk_idx,
          chunks_por_disciplina, result, log, outcome, assembled, prior, call>>

Null == "None"

(***************************************************************************)
(* Lexemes and string helpers                                              *)
(***************************************************************************)
WS == {" ", "\n"}
Digit == {"1", "2"}

RECURSIVE Join(_)
Join(s) == IF s = <<>> THEN "" ELSE Head(s) \o Join(Tail(s))

Min(S) == CHOOSE x \in S : \A y \in S : x <= y
Max(S) == CHOOSE x \in S : \A y \in S : x >= y

\* first index >= from whose lexeme is in T, 0 when there is none
FirstIdx(s, from, T) ==
    LET I == {i \in from..Len(s) : s[i] \in T}
    IN IF I = {} THEN 0 ELSE Min(I)

\* str.strip()
RECURSIVE LStrip(_)
LStrip(s) == IF s # <<>> /\ Head(s) \in WS THEN LStrip(Tail(s)) ELSE s
RECURSIVE RStrip(_)
RStrip(s) ==
    IF s # <<>> /\ s[Len(s)] \in WS THEN RStrip(SubSeq(s, 1, Len(s) - 1)) ELSE s
Strip(s) == RStrip(LStrip(s))

\* re.sub(r'\s+', ' ', s)
RECURSIVE CollapseWS(_)
CollapseWS(s) ==
    IF s = <<>> THEN <<>>
    ELSE IF Head(s) \in WS THEN <<" ">> \o CollapseWS(LStrip(s))
    ELSE <<Head(s)>> \o CollapseWS(Tail(s))

\* str.split('\n')
RECURSIVE SplitLines(_)
SplitLines(s) ==
    LET n == FirstIdx(s, 1, {"\n"})
    IN IF n = 0 THEN <<s>>
       ELSE <<SubSeq(s, 1, n - 1)>> \o SplitLines(SubSeq(s, n + 1, Len(s)))

\* '\n'.join(lines)
RECURSIVE JoinLines(_)
JoinLines(ls) ==
    IF ls = <<>> THEN <<>>
    ELSE IF Len(ls) = 1 THEN ls[1]
    ELSE ls[1] \o <<"\n">> \o JoinLines(Tail(ls))

\* length of the maximal run of lexemes of T starting at index i
RECURSIVE RunLen(_, _, _)
RunLen(s, i, T) ==
    IF i <= Len(s) /\ s[i] \in T THEN 1 + RunLen(s, i + 1, T) ELSE 0

(***************************************************************************)
(* Lexemes in which a literal of the source's patterns occurs.  A literal  *)
(* that is used as a start marker is always a whole lexeme; a literal used *)
(* as a terminator is a prefix of every lexeme that holds it.              *)
(***************************************************************************)
Occ(lit) ==
    CASE lit = "Bibliografia" -> {"Bibliografia Básica", "Bibliografia Complementar"}
      [] lit = "Resumo"       -> {"Resumo da Alteração"}
      [] lit = "Nota"         -> {"Nota/Conceito"}
      [] lit = "Disciplina"   -> {"Disciplina", "Disciplina:", "Disciplina/Unidade"}
      [] OTHER                -> {lit}

\* the fallback terminators of extract_section_from_pdf (besides end of text)
FallbackEnd == Occ("Bibliografia") \cup Occ("Resumo da Alteração")

(***************************************************************************)
(* extract_section_from_pdf(text, section_start, section_end)              *)
(* section_end = Null is Python's None.                                    *)
(***************************************************************************)
extract_section_from_pdf(t, section_start, section_end) ==
    LET p == FirstIdx(t, 1, Occ(section_start))
        e == IF p = 0 THEN 0
             ELSE IF section_end # Null
                  THEN FirstIdx(t, p + 1, Occ(section_end))
                  ELSE LET f == FirstIdx(t, p + 1, FallbackEnd)
                       IN IF f = 0 THEN Len(t) + 1 ELSE f
    IN IF p = 0 \/ e = 0 THEN <<>> ELSE Strip(SubSeq(t, p + 1, e - 1))

(***************************************************************************)
(* clean_chunk_text, default branch                                        *)
(***************************************************************************)
\* whole lines (stripped, lower-cased) the cleaner drops
Boilerplate ==
    { <<"Ordem">>, <<"Ementa">>, <<"Resumo da Alteração">>, <<"Disciplina">>,
      <<"Disciplina/Unidade">>, <<"Curricular">>, <<"Total">> }

KeepLine(line) == Strip(line) # <<>> /\ Strip(line) \notin Boilerplate

\* re.sub(r'^\d+\s+', '', text)
StripOrdinal(t) ==
    LET nd == RunLen(t, 1, Digit)
        nw == RunLen(t, nd + 1, WS)
    IN IF nd > 0 /\ nw > 0 THEN SubSeq(t, nd + nw + 1, Len(t)) ELSE t

\* re.sub(r'(Bibliografia Complementar\s*)+$', '', text, flags=re.IGNORECASE)
StripTrailingHeading(t) ==
    LET T == WS \cup {"Bibliografia Complementar"}
        I == {i \in 1..Len(t) : /\ t[i] = "Bibliografia Complementar"
                                /\ \A j \in i..Len(t) : t[j] \in T}
    IN IF I = {} THEN t ELSE SubSeq(t, 1, Min(I) - 1)

clean_default(t) ==
    LET lines == SelectSeq(SplitLines(t), KeepLine)
    IN Strip(CollapseWS(StripTrailingHeading(StripOrdinal(JoinLines(lines)))))

(***************************************************************************)
(* re.findall(r'(\d+\s*.*?(?=\d+\s*|Bibliografia|$))', conteudo, DOTALL)   *)
(***************************************************************************)
RECURSIVE Topicos(_, _)
Topicos(c, from) ==
    LET p == FirstIdx(c, from, Digit)
    IN IF p = 0 THEN <<>>
       ELSE LET nd == RunLen(c, p, Digit)
                nw == RunLen(c, p + nd, WS)
                q  == p + nd + nw
                n  == FirstIdx(c, q, Digit \cup Occ("Bibliografia"))
                \* $ also matches just before a final newline
                z  == IF Len(c) >= q /\ c[Len(c)] = "\n" THEN Len(c) ELSE Len(c) + 1
                e  == IF n = 0 THEN z ELSE n
            IN <<SubSeq(c, p, e - 1)>> \o Topicos(c, e)

\* lexemes that hold a space, and the part before their first space
Phrases ==
    {"Bibliografia Básica", "Bibliografia Complementar", "Resumo da Alteração",
     "Conteúdo Programático"}
HeadWord(lex) ==
    CASE lex \in {"Bibliografia Básica", "Bibliografia Complementar"} -> "Bibliografia"
      [] lex = "Resumo da Alteração" -> "Resumo"
      [] lex = "Conteúdo Programático" -> "Conteúdo"
      [] OTHER -> lex

\* topico.split()[0]
FirstWord(t) ==
    LET s == LStrip(t)
        n == FirstIdx(s, 1, WS \cup Phrases)
    IN IF n = 0 THEN s
       ELSE IF s[n] \in WS THEN SubSeq(s, 1, n - 1)
       ELSE SubSeq(s, 1, n - 1) \o <<HeadWord(s[n])>>

(***************************************************************************)
(* Course codes.  "CC56E" matches both the extractor's (CC|PP)\d+[A-Z] and *)
(* the cleaner's (CC|PP|CH|OP|MEIU)\d+[A-Z0-9]; "OP63P" only the latter.   *)
(***************************************************************************)
ExtractorCodes == {"CC56E"}
CleanerCodes == {"CC56E", "OP63P"}

\* (?=Nota/Conceito|Frequência|Presencial|Semestral) of clean_chunk_text
CleanerStops == {"Nota/Conceito", "Frequência", "Presencial", "Semestral"}
\* (?=Frequência|Presencial|Nota|$) of process_pdf_content
AssemblerStops == {"Frequência", "Presencial"} \cup Occ("Nota")

\* position at which a lazy group starting at q ends when $ is its only
\* terminator: the end of the text, or just before a final newline
EndOfText(t, q) ==
    IF Len(t) >= q /\ t[Len(t)] = "\n" THEN Len(t) ELSE Len(t) + 1

\* end of a lazy group starting at q and terminated by a lexeme of T or by $
LazyEnd(t, q, T) ==
    LET n == FirstIdx(t, q, T)
    IN IF n = 0 THEN EndOfText(t, q) ELSE n

(***************************************************************************)
(* extract_metadata_from_header(text)                                      *)
(* A metadata record is a function from keys to strings.                   *)
(***************************************************************************)
Has(md, key) == key \in DOMAIN md
\* dict.get(key) is truthy
Truthy(md, key) == Has(md, key) /\ md[key] # ""
\* {**a, **b}
Merge(a, b) == [k \in DOMAIN a \cup DOMAIN b |-> IF k \in DOMAIN b THEN b[k] ELSE a[k]]

extract_metadata_from_header(t) ==
    LET c    == FirstIdx(t, 1, ExtractorCodes)
        rest == SubSeq(t, c + 1, Len(t))
        line == SplitLines(rest)[1]
        base == [modalidade |-> IF FirstIdx(t, 1, {"Presencial"}) # 0
                                THEN "Presencial" ELSE "Não Presencial",
                 oferta     |-> IF FirstIdx(t, 1, {"Semestral"}) # 0
                                THEN "Semestral" ELSE "Anual"]
    IN IF c = 0 THEN base
       ELSE Merge(base, [codigo |-> t[c], disciplina |-> Join(Strip(line))])

(***************************************************************************)
(* clean_chunk_text, identification branch                                 *)
(***************************************************************************)
NA == "N/A"

ident_codigo(t) ==
    LET c == FirstIdx(t, 1, CleanerCodes) IN IF c = 0 THEN NA ELSE t[c]

\* the three name patterns: the captured group of the leftmost match, or
\* Null when the pattern does not match
NameCapture(t, n, cod) ==
    LET anchor == IF n = 1 THEN {cod}
                  ELSE IF n = 2 THEN {"Disciplina/Unidade"} ELSE {"Curricular"}
        \* start of the group when the pattern is anchored at i, 0 if it cannot be
        GroupStart(i) ==
            LET nw == RunLen(t, i + 1, WS)
            IN IF n = 1 THEN (IF nw > 0 THEN i + 1 + nw ELSE 0)
               ELSE IF n = 2 THEN i + 1
               ELSE i + 1 + nw
        I == {i \in 1..Len(t) : /\ t[i] \in anchor
                                /\ GroupStart(i) # 0
                                /\ FirstIdx(t, GroupStart(i), CleanerStops) # 0}
    IN IF I = {} THEN Null
       ELSE LET q == GroupStart(Min(I))
            IN SubSeq(t, q, FirstIdx(t, q, CleanerStops) - 1)

\* strip, collapse whitespace, drop a leading "Curricular", strip
NameTidy(g) ==
    LET c == CollapseWS(Strip(g))
        e == IF c # <<>> /\ Head(c) = "Curricular" THEN LStrip(Tail(c)) ELSE c
    IN Strip(e)

\* the loop over the patterns: the value disciplina holds after it
RECURSIVE NameLoop(_, _, _, _)
NameLoop(t, n, cod, disciplina) ==
    IF n > 3 THEN disciplina
    ELSE LET g == NameCapture(t, n, cod)
         IN IF g = Null THEN NameLoop(t, n + 1, cod, disciplina)
            ELSE LET nm == Join(NameTidy(g))
                 IN IF nm # "" /\ nm # NA THEN nm
                    ELSE NameLoop(t, n + 1, cod, nm)

\* re.search(r'Disciplina:\s*([^>]*?)(?=\.|$)', text, re.DOTALL)
NameFromLabel(t) ==
    LET i == FirstIdx(t, 1, {"Disciplina:"})
        q == i + 1 + RunLen(t, i + 1, WS)
    IN IF i = 0 THEN Null ELSE SubSeq(t, q, LazyEnd(t, q, {"."}) - 1)

ident_disciplina(t) ==
    LET cod == ident_codigo(t)
        nm  == IF cod = NA THEN NA ELSE NameLoop(t, 1, cod, NA)
    IN IF (nm = NA \/ nm = "") /\ NameFromLabel(t) # Null
       THEN Join(Strip(NameFromLabel(t)))
       ELSE nm

\* digits of the k-th number of a run "\s+\d+" repeated, starting after index i;
\* <<>> when there are fewer than k numbers
RECURSIVE NthNumber(_, _, _)
NthNumber(t, i, k) ==
    LET nw == RunLen(t, i + 1, WS)
        nd == RunLen(t, i + 1 + nw, Digit)
    IN IF nw = 0 \/ nd = 0 THEN <<>>
       ELSE IF k = 1 THEN SubSeq(t, i + 1 + nw, i + nw + nd)
       ELSE NthNumber(t, i + nw + nd, k - 1)

\* the five credit-hour patterns in the order the code tries them: the digits
\* captured when the pattern is anchored at lexeme i, <<>> when it does not match
HoursAt(t, i, n) ==
    LET nw  == RunLen(t, i + 1, WS)
        nd  == RunLen(t, i + 1 + nw, Digit)
        num == SubSeq(t, i + 1 + nw, i + nw + nd)
        a   == i + nw + nd                 \* last digit of the number
        aw  == RunLen(t, a + 1, WS)
        nxt == IF a + aw + 1 <= Len(t) THEN t[a + aw + 1] ELSE Null
    IN CASE n = 1 -> IF t[i] = "Total" THEN NthNumber(t, i, 8) ELSE <<>>
         [] n = 2 -> IF t[i] = "Total" /\ nw > 0 /\ nd > 0 /\ aw > 0 /\ nxt = "AT:"
                     THEN num ELSE <<>>
         [] n = 3 -> IF t[i] = "Total:" /\ nd > 0 THEN num ELSE <<>>
         [] n = 4 -> IF t[i] = "Total" /\ nw > 0 /\ nd > 0 /\ nxt = "h"
                     THEN num ELSE <<>>
         [] n = 5 -> IF t[i] = "Total" /\ nw > 0 /\ nd > 0 THEN num ELSE <<>>

HoursCapture(t, n) ==
    LET I == {i \in 1..Len(t) : HoursAt(t, i, n) # <<>>}
    IN IF I = {} THEN <<>> ELSE HoursAt(t, Min(I), n)

ident_carga(t) ==
    LET N == {n \in 1..5 : HoursCapture(t, n) # <<>>}
    IN IF N = {} THEN NA ELSE Join(HoursCapture(t, Min(N))) \o " Horas"

clean_identificacao(t) ==
    "Informações da disciplina " \o ident_codigo(t) \o " " \o ident_disciplina(t)
        \o ". Carga Horária " \o ident_carga(t)

(***************************************************************************)
(* Filenames are lexeme sequences too: <<"OP63P", ".pdf">> is "OP63P.pdf". *)
(***************************************************************************)
DotLex == {".pdf", ".PDF", ".txt"}
\* str.lower() of a lexeme
Lower(x) == IF x = ".PDF" THEN ".pdf" ELSE x
\* f.lower().endswith('.pdf')
IsPdfName(f) == f # <<>> /\ Lower(f[Len(f)]) = ".pdf"
\* os.path.splitext(filename)[0]
Stem(f) ==
    IF Len(f) >= 2 /\ f[Len(f)] \in DotLex
    THEN Join(SubSeq(f, 1, Len(f) - 1)) ELSE Join(f)

\* strings that re.search rejects as a pattern (unbalanced parenthesis)
BadPattern == {"x("}

\* text[:500]
HeaderChars == 500
RECURSIVE Chars(_)
Chars(t) == IF t = <<>> THEN 0 ELSE Len(Head(t)) + Chars(Tail(t))
Slice(t, n) ==
    LET K == {k \in 0..Len(t) : Chars(SubSeq(t, 1, k)) <= n}
    IN SubSeq(t, 1, Max(K))

(***************************************************************************)
(* process_pdf_content(text, filename)                                     *)
(***************************************************************************)
\* (?:Disciplina|Unidade Curricular)[:\s]+(.*?)(?=Frequência|Presencial|Nota|$)
LabelCapture(t) ==
    LET \* start of the group when the label is matched at lexeme i, else 0
        GroupStart(i) ==
            IF t[i] = "Disciplina:" THEN i + 1 + RunLen(t, i + 1, WS)
            ELSE IF t[i] = "Disciplina" /\ RunLen(t, i + 1, WS) > 0
                 THEN i + 1 + RunLen(t, i + 1, WS)
            ELSE IF /\ t[i] = "Disciplina/Unidade" /\ i + 3 <= Len(t)
                    /\ t[i + 1] = " " /\ t[i + 2] = "Curricular"
                    /\ t[i + 3] \in WS
                 THEN i + 3 + RunLen(t, i + 3, WS)
            ELSE 0
        I == {i \in 1..Len(t) : GroupStart(i) # 0}
    IN IF I = {} THEN Null
       ELSE LET q == GroupStart(Min(I))
            IN SubSeq(t, q, LazyEnd(t, q, AssemblerStops) - 1)

\* variant: codigo is always taken from the filename
WithCodigo_StemAlways(t, filename) ==
    Merge(extract_metadata_from_header(t), [codigo |-> Stem(filename)])

\* lines 265-269: the extractor's metadata with codigo backfilled
WithCodigo(t, filename) ==
    LET md == extract_metadata_from_header(t)
    IN IF Truthy(md, "codigo") THEN md
       ELSE Merge(md, [codigo |-> Stem(filename)])

\* variant: the label is searched before the code
WithDisciplina_LabelFirst(t, md) ==
    IF Truthy(md, "disciplina") THEN md
    ELSE LET i == FirstIdx(t, 1, Occ(md["codigo"]))
         IN IF LabelCapture(t) # Null
            THEN Merge(md, [disciplina |-> Join(Strip(LabelCapture(t)))])
            ELSE IF i # 0
            THEN Merge(md, [disciplina |->
                     Join(Strip(SubSeq(t, i + 1, LazyEnd(t, i + 1, AssemblerStops) - 1)))])
            ELSE Merge(md, [disciplina |-> "Disciplina " \o md["codigo"]])

\* lines 271-284: disciplina backfilled (the pattern built from codigo is valid)
WithDisciplina(t, md) ==
    IF Truthy(md, "disciplina") THEN md
    ELSE LET i == FirstIdx(t, 1, Occ(md["codigo"]))
         IN IF i # 0
            THEN Merge(md, [disciplina |->
                     Join(Strip(SubSeq(t, i + 1, LazyEnd(t, i + 1, AssemblerStops) - 1)))])
            ELSE IF LabelCapture(t) # Null
            THEN Merge(md, [disciplina |-> Join(Strip(LabelCapture(t)))])
            ELSE Merge(md, [disciplina |-> "Disciplina " \o md["codigo"]])

\* variant: the chunk refers to the document-level dict instead of a copy
Chunk_NoCopy(txt, tipo, md) ==
    [text |-> txt, tipo |-> tipo, metadata |-> md, alias |-> TRUE]

\* a chunk dict; metadata.copy() and {**metadata.copy(), ...} are dict objects of
\* their own: alias tells whether the chunk's metadata is the document-level
\* object itself
Chunk(txt, tipo, md) ==
    [text |-> txt, tipo |-> tipo, metadata |-> md, alias |-> FALSE]

\* an assignment to keys of the document-level metadata, as the chunks see it
WriteThrough(cs, upd) ==
    [n \in 1..Len(cs) |->
        IF cs[n].alias THEN [cs[n] EXCEPT !.metadata = Merge(@, upd)] ELSE cs[n]]

\* one section chunk, or none when the section is empty (lines 295-311, 324-339)
SectionChunks(t, md, tipo, section_start, section_end) ==
    LET sec == extract_section_from_pdf(t, section_start, section_end)
    IN IF sec # <<>> THEN <<Chunk(Join(clean_default(sec)), tipo, md)>> ELSE <<>>

\* lines 313-322
TopicChunk(topico, md) ==
    Chunk(Join(clean_default(Strip(topico))), "conteudo_programatico",
          Merge(md, [secao |-> "Tópico " \o Join(FirstWord(topico))]))

TopicChunks(t, md) ==
    LET conteudo == extract_section_from_pdf(t, "Conteúdo Programático", "Bibliografia")
        topicos  == IF conteudo # <<>> THEN Topicos(conteudo, 1) ELSE <<>>
    IN [n \in 1..Len(topicos) |-> TopicChunk(topicos[n], md)]

\* variant: the identification chunk is left out when no code is derived
IdentChunks_IfCode(t, md) ==
    IF ident_codigo(Slice(t, HeaderChars)) = NA THEN <<>>
    ELSE <<Chunk(clean_identificacao(Slice(t, HeaderChars)), "identificacao", md)>>

\* lines 286-293
IdentChunks(t, md) ==
    <<Chunk(clean_identificacao(Slice(t, HeaderChars)), "identificacao", md)>>

\* variant: the bibliography chunks are emitted before the topics
AssembleChunks_BibFirst(t, md) ==
    IdentChunks(t, md)
    \o SectionChunks(t, md, "objetivo", "Objetivo", "Ementa")
    \o SectionChunks(t, md, "ementa", "Ementa", "Conteúdo Programático")
    \o SectionChunks(t, md, "bibliografia_basica",
                     "Bibliografia Básica", "Bibliografia Complementar")
    \o SectionChunks(t, md, "bibliografia_complementar",
                     "Bibliografia Complementar", "Resumo")
    \o TopicChunks(t, md)

AssembleChunks(t, md) ==
    IdentChunks(t, md)
    \o SectionChunks(t, md, "objetivo", "Objetivo", "Ementa")
    \o SectionChunks(t, md, "ementa", "Ementa", "Conteúdo Programático")
    \o TopicChunks(t, md)
    \o SectionChunks(t, md, "bibliografia_basica",
                     "Bibliografia Básica", "Bibliografia Complementar")
    \o SectionChunks(t, md, "bibliografia_complementar",
                     "Bibliografia Complementar", "Resumo")

\* the call raises re.error when disciplina must be searched with a codigo that
\* is no valid pattern
Raises(t, filename) ==
    LET md == WithCodigo(t, filename)
    IN ~Truthy(md, "disciplina") /\ md["codigo"] \in BadPattern

process_pdf_content(t, filename) ==
    IF Raises(t, filename)
    THEN [raised |-> TRUE, metadata |-> Null, chunks |-> <<>>]
    ELSE LET md == WithDisciplina(t, WithCodigo(t, filename))
         IN [raised |-> FALSE, metadata |-> md, chunks |-> AssembleChunks(t, md)]

(***************************************************************************)
(* Bounds of the model                                                     *)
(***************************************************************************)
MaxFiles == 2       \* children of the input directory
NumModels == 2      \* how many of the configured models a run uses
MaxLen == 4         \* lexemes of a raw text given to the assembler alone

(***************************************************************************)
(* setup_embedding_models: the configured (name, model) pairs, by name     *)
(***************************************************************************)
ModelNames ==
    <<"all-MiniLM-L6-v2", "all-mpnet-base-v2",
      "paraphrase-multilingual-MiniLM-L12-v2",
      "distiluse-base-multilingual-cased-v2", "stsb-xlm-r-multilingual",
      "neuralmind-bert-base-portuguese-cased">>

setup_embedding_models == SubSeq(ModelNames, 1, NumModels)

\* embedding_model.encode(chunk_text): a value determined by model and text
Encode(model_name, txt) == <<model_name, txt>>

(***************************************************************************)
(* The vector store and setup_chromadb                                     *)
(***************************************************************************)
collection_name(model_name) == "ementas-disciplinas_" \o model_name

\* a collection the pipeline does not own
Foreign == "outra-colecao"

CollectionNames ==
    {collection_name(setup_embedding_models[n]) : n \in 1..NumModels} \cup {Foreign}

\* a record left by an earlier run
Stale(name) ==
    [id |-> "CC56E_identificacao_0_all-MiniLM-L6-v2", embedding |-> <<name, "old">>,
     document |-> "old", metadata |-> [source |-> "CC56E.pdf"]]

\* variant: deleting a collection empties the whole store
delete_collection_Reset(st, name) == <<>>

\* chroma_client.delete_collection(name)
delete_collection(st, name) == [c \in DOMAIN st \ {name} |-> st[c]]

\* chroma_client.create_collection(name): raises when the name is taken
create_collection(st, name) ==
    IF name \in DOMAIN st THEN [raised |-> TRUE, store |-> st]
    ELSE [raised |-> FALSE, store |-> Merge(st, name :> <<>>)]

\* variant: the collection is fetched when it exists instead of being replaced
SetupOne_GetOrCreate(st, existing_collections, model_name) ==
    LET name == collection_name(model_name)
    IN [raised |-> FALSE,
        store |-> IF name \in DOMAIN st THEN st ELSE Merge(st, name :> <<>>)]

\* one iteration of the loop of setup_chromadb (lines 117-129)
SetupOne(st, existing_collections, model_name) ==
    LET name == collection_name(model_name)
    IN create_collection(IF name \in existing_collections
                         THEN delete_collection(st, name) ELSE st, name)

\* the loop from model n on; collections accumulates the handles
RECURSIVE SetupLoop(_, _, _, _, _)
SetupLoop(st, existing_collections, models, n, handles) ==
    IF n > Len(models) THEN [raised |-> FALSE, store |-> st, collections |-> handles]
    ELSE LET r == SetupOne(st, existing_collections, models[n])
         IN IF r.raised THEN [raised |-> TRUE, store |-> r.store, collections |-> handles]
            ELSE SetupLoop(r.store, existing_collections, models, n + 1,
                           Append(handles, collection_name(models[n])))

setup_chromadb(st, models) ==
    LET existing_collections == DOMAIN st
    IN SetupLoop(st, existing_collections, models, 1, <<>>)

(***************************************************************************)
(* Inputs of a run                                                         *)
(***************************************************************************)
\* children the input directory may hold
Files ==
    { <<"OP63P", ".pdf">>, <<"OP63P", ".PDF">>, <<"x(", ".pdf">>, <<"notas", ".txt">> }

\* raw texts a PDF of the directory may yield
DocTexts ==
    { <<"CC56E", " ", "abc", "\n", "Objetivo", "abc", "Ementa">>,
      <<"Objetivo", "Ordem", "Ementa">>,
      <<"Conteúdo Programático", "1", "abc", "2", "abc", "Bibliografia Básica">> }

\* stores a run may find: an empty one, or one that holds the first configured
\* collection and a foreign one, each with a record of an earlier run
PriorKinds == {"empty", "mixed"}
PriorStore(kind) ==
    [c \in IF kind = "empty" THEN {}
           ELSE {collection_name(setup_embedding_models[1]), Foreign}
        |-> <<Stale(c)>>]

\* sequences of distinct children, at most MaxFiles long
Listings ==
    {l \in UNION {[1..n -> Files] : n \in 0..MaxFiles} :
        \A a, b \in 1..Len(l) : a # b => l[a] # l[b]}

(***************************************************************************)
(* Ids, records and insertion                                              *)
(***************************************************************************)
\* variant: the id leaves the chunk index out
ChunkId_NoIndex(cod, tipo, idx, model_name) ==
    cod \o "_" \o tipo \o "_" \o model_name

\* f"{codigo}_{chunk['tipo']}_{i}_{model_name}", i zero-based
ChunkId(cod, tipo, idx, model_name) ==
    cod \o "_" \o tipo \o "_" \o ToString(idx) \o "_" \o model_name

\* {**chunk['metadata'], 'source': source, 'tipo': chunk['tipo'], 'codigo': codigo}
ChunkMetadata(chunk, src, cod) ==
    Merge(chunk.metadata, [source |-> Join(src), tipo |-> chunk.tipo, codigo |-> cod])

Record(chunk, src, cod, idx, model_name) ==
    [id        |-> ChunkId(cod, chunk.tipo, idx, model_name),
     embedding |-> Encode(model_name, chunk.text),
     document  |-> chunk.text,
     metadata  |-> ChunkMetadata(chunk, src, cod)]

Ids(recs) == {recs[n].id : n \in 1..Len(recs)}

\* collection.add(...) of a record whose id is new
Add(st, coll, rec) == [st EXCEPT ![coll] = Append(@, rec)]

\* variant: the except clause removes the failed document's records
OnFailure_Rollback(st, src) ==
    [c \in DOMAIN st |-> SelectSeq(st[c], LAMBDA r : r.metadata.source # Join(src))]

\* what the except clause of a driver does to the store: nothing
OnFailure(st, src) == st

(***************************************************************************)
(* The run: setup_chromadb, then one of the two drivers                    *)
(***************************************************************************)
Init ==
    /\ pc = "start"
    /\ driver = "all"
    /\ dir_kind \in {"missing", "file", "dir"}
    /\ listing \in Listings
    /\ (dir_kind # "dir" => listing = <<>>)
    /\ \E kind \in PriorKinds : store = PriorStore(kind)
    /\ prior = store
    /\ collections = <<>>
    /\ pdf_files = <<>>
    /\ doc_idx = 0
    /\ text = Null
    /\ source = <<>>
    /\ metadata = Null
    /\ chunks = <<>>
    /\ codigo = Null
    /\ model_idx = 0
    /\ chunk_idx = 0
    /\ chunks_por_disciplina = <<>>
    /\ result = Null
    /\ log = <<>>
    /\ outcome = <<>>
    /\ assembled = {}
    /\ call = Null

inputs == <<dir_kind, listing, prior, call>>
doc_vars == <<text, source, metadata, chunks, codigo, model_idx, chunk_idx>>

Say(msg, file) == Append(log, [msg |-> msg, file |-> file])

\* __main__, lines 503-507
Setup ==
    /\ pc = "start"
    /\ LET r == setup_chromadb(store, setup_embedding_models)
       IN /\ store' = r.store
          /\ collections' = r.collections
          /\ pc' = IF r.raised THEN "crashed" ELSE "ready"
    /\ UNCHANGED <<assembled, driver, inputs, pdf_files, doc_idx, doc_vars,
                   chunks_por_disciplina, result, log, outcome>>

\* lines 423-425
NoDirectory ==
    /\ pc = "ready"
    /\ dir_kind = "missing"
    /\ log' = Say("Diretório não encontrado", "")
    /\ result' = <<>>
    /\ pc' = "done"
    /\ UNCHANGED <<assembled, driver, inputs, store, collections, pdf_files, doc_idx, doc_vars,
                   chunks_por_disciplina, outcome>>

\* line 427: os.path.exists holds of a path that is no directory, os.listdir raises
ListDirRaises ==
    /\ pc = "ready"
    /\ dir_kind = "file"
    /\ pc' = "crashed"
    /\ UNCHANGED <<assembled, driver, inputs, store, collections, pdf_files, doc_idx, doc_vars,
                   chunks_por_disciplina, result, log, outcome>>

\* lines 427-432
NoPdfFiles ==
    /\ pc = "ready"
    /\ dir_kind = "dir"
    /\ SelectSeq(listing, IsPdfName) = <<>>
    /\ log' = Say("Nenhum arquivo PDF encontrado.", "")
    /\ result' = <<>>
    /\ pc' = "done"
    /\ UNCHANGED <<assembled, driver, inputs, store, collections, pdf_files, doc_idx, doc_vars,
                   chunks_por_disciplina, outcome>>

\* lines 427-440
StartLoop ==
    /\ pc = "ready"
    /\ dir_kind = "dir"
    /\ SelectSeq(listing, IsPdfName) # <<>>
    /\ pdf_files' = SelectSeq(listing, IsPdfName)
    /\ outcome' = [n \in 1..Len(pdf_files') |-> "pending"]
    /\ doc_idx' = 1
    /\ chunks_por_disciplina' = <<>>
    /\ pc' = "extract"
    /\ UNCHANGED <<assembled, driver, inputs, store, collections, doc_vars, result, log>>

\* a call of process_pdf_and_add_to_collections on one child of the directory
SingleCall ==
    /\ pc = "ready"
    /\ dir_kind = "dir"
    /\ \E n \in 1..Len(listing) : pdf_files' = <<listing[n]>>
    /\ driver' = "single"
    /\ outcome' = <<"pending">>
    /\ doc_idx' = 1
    /\ pc' = "extract"
    /\ UNCHANGED <<assembled, inputs, store, collections, doc_vars, chunks_por_disciplina,
                   result, log>>

\* the current document is over with outcome o: the directory driver goes on
\* with the next one, the single-document driver returns
Leave(o) ==
    /\ outcome' = [outcome EXCEPT ![doc_idx] = o]
    /\ IF driver = "all"
       THEN doc_idx' = doc_idx + 1 /\ pc' = "extract"
       ELSE doc_idx' = doc_idx /\ pc' = "done"

\* variant: the except clause ends the run
Except_Abort(o) ==
    /\ log' = Say("Erro ao processar", Join(pdf_files[doc_idx]))
    /\ store' = store
    /\ outcome' = [outcome EXCEPT ![doc_idx] = o]
    /\ doc_idx' = doc_idx
    /\ pc' = "crashed"

\* the except clause: lines 485-487 and 409-411
Except(o) ==
    /\ log' = Say("Erro ao processar", Join(pdf_files[doc_idx]))
    /\ store' = OnFailure(store, pdf_files[doc_idx])
    /\ Leave(o)

\* variant: a document without text ends the run
Skip_Return(o, extraction_log) ==
    /\ log' = extraction_log
    /\ outcome' = [outcome EXCEPT ![doc_idx] = o]
    /\ doc_idx' = doc_idx
    /\ pc' = "done"

\* a document whose text is None or empty: lines 446-447 and 365-367
Skip(o, extraction_log) ==
    /\ log' = IF driver = "all" THEN extraction_log
              ELSE Append(extraction_log,
                          [msg |-> "Não foi possível extrair texto",
                           file |-> Join(pdf_files[doc_idx])])
    /\ Leave(o)

Extracting == pc = "extract" /\ doc_idx <= Len(pdf_files)

\* extract_text_from_pdf raises inside, reports and returns None (lines 151-153)
ExtractFails ==
    /\ Extracting
    /\ source' = pdf_files[doc_idx]
    /\ text' = Null
    /\ Skip("extract_failed",
            Say("Erro ao extrair texto do PDF", Join(pdf_files[doc_idx])))
    /\ UNCHANGED <<assembled, driver, inputs, store, collections, pdf_files, metadata, chunks,
                   codigo, model_idx, chunk_idx, chunks_por_disciplina, result>>

\* extract_text_from_pdf returns "" (a PDF without text)
ExtractEmpty ==
    /\ Extracting
    /\ source' = pdf_files[doc_idx]
    /\ text' = <<>>
    /\ Skip("extract_empty", log)
    /\ UNCHANGED <<assembled, driver, inputs, store, collections, pdf_files, metadata, chunks,
                   codigo, model_idx, chunk_idx, chunks_por_disciplina, result>>

\* extract_text_from_pdf returns the text (lines 443-444)
ExtractText ==
    /\ Extracting
    /\ source' = pdf_files[doc_idx]
    /\ text' \in DocTexts
    /\ pc' = "assemble"
    /\ UNCHANGED <<assembled, driver, inputs, store, collections, pdf_files, doc_idx, metadata,
                   chunks, codigo, model_idx, chunk_idx, chunks_por_disciplina,
                   result, log, outcome>>

\* the codigo the driver stores under: line 451, and line 374
DriverCodigo(drv, md, src) == IF drv = "all" THEN md["codigo"] ELSE Stem(src)

\* process_pdf_content on the documents and filenames of the pipeline runs
PdfContent ==
    [t \in DocTexts |->
        [f \in Files |-> process_pdf_content(t, f)]]

\* lines 449-454, and 369-374
Assemble ==
    /\ pc = "assemble"
    /\ ~PdfContent[text][source].raised
    /\ LET r == PdfContent[text][source]
           c == DriverCodigo(driver, r.metadata, source)
       IN /\ codigo' = c
          /\ chunks' = IF driver = "all" THEN r.chunks
                       ELSE WriteThrough(r.chunks, [source |-> Join(source), codigo |-> c])
          /\ metadata' = IF driver = "all" THEN r.metadata
                         ELSE Merge(r.metadata, [source |-> Join(source), codigo |-> c])
          /\ chunks_por_disciplina' =
                IF driver = "all"
                THEN Merge(chunks_por_disciplina, c :> r.chunks)
                ELSE chunks_por_disciplina
    /\ model_idx' = 1
    /\ chunk_idx' = 1
    /\ pc' = "insert"
    /\ assembled' = assembled \cup {doc_idx}
    /\ UNCHANGED <<driver, inputs, store, collections, pdf_files, doc_idx, text,
                   source, result, log, outcome>>

\* process_pdf_content raises: caught by the except clause
AssembleRaises ==
    /\ pc = "assemble"
    /\ PdfContent[text][source].raised
    /\ Except("assembly_failed")
    /\ assembled' = assembled \cup {doc_idx}
    /\ UNCHANGED <<driver, inputs, collections, pdf_files, doc_vars,
                   chunks_por_disciplina, result>>

\* zip(models, collections)
NumPairs == Min({Len(setup_embedding_models), Len(collections)})

Inserting == pc = "insert" /\ model_idx <= NumPairs

\* the loop indices after chunk chunk_idx of model model_idx
Advance ==
    IF chunk_idx < Len(chunks)
    THEN model_idx' = model_idx /\ chunk_idx' = chunk_idx + 1
    ELSE model_idx' = model_idx + 1 /\ chunk_idx' = 1

\* variant: every chunk is embedded and named with the first model
CurrentRecord_FirstModel ==
    Record(chunks[chunk_idx], source, codigo, chunk_idx - 1,
           setup_embedding_models[1])

CurrentRecord ==
    Record(chunks[chunk_idx], source, codigo, chunk_idx - 1,
           setup_embedding_models[model_idx])

\* lines 464-481: the chunk is embedded and added
InsertChunk ==
    /\ Inserting
    /\ CurrentRecord.id \notin Ids(store[collections[model_idx]])
    /\ store' = Add(store, collections[model_idx], CurrentRecord)
    /\ Advance
    /\ UNCHANGED <<assembled, pc, driver, inputs, collections, pdf_files, doc_idx, text, source,
                   metadata, chunks, codigo, chunks_por_disciplina, result, log,
                   outcome>>

\* collection.add of an id the collection holds: stores that do not raise
\* leave the collection as it is
AddIgnored ==
    /\ Inserting
    /\ CurrentRecord.id \in Ids(store[collections[model_idx]])
    /\ Advance
    /\ UNCHANGED <<assembled, pc, driver, inputs, store, collections, pdf_files, doc_idx, text,
                   source, metadata, chunks, codigo, chunks_por_disciplina, result,
                   log, outcome>>

\* variant: the except clause takes the failed document out of the mapping
InsertRaises_Forget ==
    /\ Inserting
    /\ Except("insert_failed")
    /\ chunks_por_disciplina' =
          [c \in DOMAIN chunks_por_disciplina \ {codigo} |-> chunks_por_disciplina[c]]
    /\ UNCHANGED <<assembled, driver, inputs, collections, pdf_files, doc_vars, result>>

\* model.encode raises (line 473), or collection.add raises (lines 476-481): a
\* rejected id, or the store failing
InsertRaises ==
    /\ Inserting
    /\ Except("insert_failed")
    /\ UNCHANGED <<assembled, driver, inputs, collections, pdf_files, doc_vars,
                   chunks_por_disciplina, result>>

\* the loop over the pairs is over (line 483 was the last statement)
DocDone ==
    /\ pc = "insert"
    /\ model_idx > NumPairs
    /\ Leave("inserted")
    /\ UNCHANGED <<assembled, driver, inputs, store, collections, pdf_files, doc_vars,
                   chunks_por_disciplina, result, log>>

\* lines 489-490
Finish ==
    /\ pc = "extract"
    /\ doc_idx > Len(pdf_files)
    /\ log' = Say("Processamento concluído!", "")
    /\ result' = chunks_por_disciplina
    /\ pc' = "done"
    /\ UNCHANGED <<assembled, driver, inputs, store, collections, pdf_files, doc_idx, doc_vars,
                   chunks_por_disciplina, outcome>>

Next ==
    \/ Setup
    \/ NoDirectory
    \/ ListDirRaises
    \/ NoPdfFiles
    \/ StartLoop
    \/ SingleCall
    \/ ExtractFails
    \/ ExtractEmpty
    \/ ExtractText
    \/ Assemble
    \/ AssembleRaises
    \/ InsertChunk
    \/ AddIgnored
    \/ InsertRaises
    \/ DocDone
    \/ Finish

Spec == Init /\ [][Next]_vars

\* the interpreter runs the next statement: no step is postponed forever
FairSpec == Spec /\ WF_vars(Next)

(***************************************************************************)
(* process_pdf_content on its own: every raw text of at most MaxLen        *)
(* lexemes and two whole syllabi, under a filename whose stem is a valid   *)
(* pattern and one whose stem is not                                       *)
(***************************************************************************)
\* the header and the sections up to the syllabus topics
HeadLexemes ==
    {" ", "\n", "1", "abc", "Ordem", "CC56E", "Objetivo", "Ementa",
     "Conteúdo Programático", "Bibliografia Básica"}
\* the bibliography sections
TailLexemes ==
    {" ", "\n", "abc", "Ordem", "Bibliografia Básica", "Bibliografia Complementar",
     "Resumo da Alteração"}

\* codes, name labels and the keywords that end a name
NameLexemes ==
    {" ", "\n", "abc", "CC56E", "OP63P", "Disciplina:", "Presencial"}

\* whole syllabi: every section in the layout order, and the bibliography first
Syllabi ==
    { <<"CC56E", " ", "abc", " ", "Presencial", "\n",
        "Objetivo", "\n", "abc", "\n", "Ementa", "\n", "abc", "\n",
        "Conteúdo Programático", "\n", "1", " ", "abc", "\n", "2", " ", "abc", "\n",
        "Bibliografia Básica", "\n", "abc", "\n",
        "Bibliografia Complementar", "\n", "abc", "\n", "Resumo da Alteração">>,
      <<"Bibliografia Básica", "abc", "Bibliografia Complementar", "abc",
        "Resumo da Alteração", "Conteúdo Programático", "1", "abc", "Bibliografia Básica",
        "Objetivo", "abc", "Ementa", "abc", "Conteúdo Programático">> }

AsmTexts ==
    UNION {[1..n -> HeadLexemes] \cup [1..n -> TailLexemes] \cup [1..n -> NameLexemes] :
           n \in 0..MaxLen}
    \cup Syllabi

AsmFiles == { <<"OP63P", ".pdf">>, <<"x(", ".pdf">> }

InitAsm ==
    /\ pc = "call"
    /\ text \in AsmTexts
    /\ source \in AsmFiles
    /\ metadata = Null
    /\ chunks = <<>>
    /\ driver = "none"
    /\ dir_kind = "dir"
    /\ listing = <<>>
    /\ store = <<>>
    /\ prior = <<>>
    /\ assembled = {}
    /\ collections = <<>>
    /\ pdf_files = <<>>
    /\ doc_idx = 0
    /\ codigo = Null
    /\ model_idx = 0
    /\ chunk_idx = 0
    /\ chunks_por_disciplina = <<>>
    /\ result = Null
    /\ log = <<>>
    /\ outcome = <<>>
    /\ call = Null

rest_vars == <<driver, inputs, store, collections, pdf_files, doc_idx, codigo,
               model_idx, chunk_idx, chunks_por_disciplina, result, log, outcome,
               assembled>>

\* process_pdf_content returns (metadata, chunks)
AsmReturns ==
    /\ pc = "call"
    /\ ~process_pdf_content(text, source).raised
    /\ metadata' = process_pdf_content(text, source).metadata
    /\ chunks' = process_pdf_content(text, source).chunks
    /\ pc' = "returned"
    /\ UNCHANGED <<text, source, rest_vars>>

\* process_pdf_content raises re.error
AsmRaises ==
    /\ pc = "call"
    /\ process_pdf_content(text, source).raised
    /\ pc' = "raised"
    /\ UNCHANGED <<text, source, metadata, chunks, rest_vars>>

NextAsm == AsmReturns \/ AsmRaises

SpecAsm == InitAsm /\ [][NextAsm]_vars

(***************************************************************************)
(* The text functions called on their own                                  *)
(***************************************************************************)
\* the pipeline's state when no driver runs
NoRun ==
    /\ driver = "none"
    /\ dir_kind = "dir"
    /\ listing = <<>>
    /\ store = <<>>
    /\ prior = <<>>
    /\ assembled = {}
    /\ collections = <<>>
    /\ pdf_files = <<>>
    /\ doc_idx = 0
    /\ source = <<>>
    /\ metadata = Null
    /\ chunks = <<>>
    /\ codigo = Null
    /\ model_idx = 0
    /\ chunk_idx = 0
    /\ chunks_por_disciplina = <<>>
    /\ log = <<>>
    /\ outcome = <<>>

run_vars == <<driver, inputs, store, assembled, collections, pdf_files, doc_idx,
              source, metadata, chunks, codigo, model_idx, chunk_idx,
              chunks_por_disciplina, log, outcome>>

\* clean_chunk_text(text) with the default chunk_type
CleanLexemes ==
    {" ", "\n", "1", "abc", "Ordem", "Bibliografia Complementar"}

CleanTexts == UNION {[1..n -> CleanLexemes] : n \in 0..MaxLen}

InitClean ==
    /\ pc = "call"
    /\ call = [chunk_type |-> Null]
    /\ text \in CleanTexts
    /\ result = Null
    /\ NoRun

CleanReturns ==
    /\ pc = "call"
    /\ result' = clean_default(text)
    /\ pc' = "returned"
    /\ UNCHANGED <<text, run_vars>>

\* the returned text is given to clean_chunk_text again
CleanAgain ==
    /\ pc = "returned"
    /\ text' = result
    /\ result' = clean_default(result)
    /\ pc' = "recleaned"
    /\ UNCHANGED run_vars

NextClean == CleanReturns \/ CleanAgain

SpecClean == InitClean /\ [][NextClean]_vars

\* extract_section_from_pdf(text, section_start, section_end): marker pairs the
\* assembler passes, a call that leaves section_end at its default, and a start
\* marker that is no valid pattern
SectionLexemes ==
    {"\n", "abc", "Objetivo", "Ementa", "Bibliografia Básica",
     "Bibliografia Complementar", "Resumo da Alteração"}

SectionTexts == UNION {[1..n -> SectionLexemes] : n \in 0..MaxLen}

SectionCalls ==
    { [section_start |-> "Objetivo", section_end |-> "Ementa"],
      [section_start |-> "Bibliografia Básica",
       section_end |-> "Bibliografia Complementar"],
      [section_start |-> "Bibliografia Complementar", section_end |-> "Resumo"],
      [section_start |-> "Objetivo", section_end |-> Null],
      [section_start |-> "x(", section_end |-> Null] }

\* the markers are put into the pattern as they are: re.search raises re.error
\* when one of them is no valid pattern
SectionPatternBad(c) ==
    c.section_start \in BadPattern \/ c.section_end \in BadPattern

InitSection ==
    /\ pc = "call"
    /\ call \in SectionCalls
    /\ text \in SectionTexts
    /\ result = Null
    /\ NoRun

SectionReturns ==
    /\ pc = "call"
    /\ ~SectionPatternBad(call)
    /\ result' = extract_section_from_pdf(text, call.section_start, call.section_end)
    /\ pc' = "returned"
    /\ UNCHANGED <<text, run_vars>>

SectionRaises ==
    /\ pc = "call"
    /\ SectionPatternBad(call)
    /\ pc' = "raised"
    /\ UNCHANGED <<text, result, run_vars>>

NextSection == SectionReturns \/ SectionRaises

SpecSection == InitSection /\ [][NextSection]_vars

\* clean_chunk_text(text, chunk_type='identificacao')
IdentLexemes ==
    {" ", "abc", "CC56E", "Presencial", "Disciplina/Unidade", "Curricular",
     "Disciplina:", "Total", "1"}

IdentTexts == UNION {[1..n -> IdentLexemes] : n \in 0..MaxLen}

InitIdent ==
    /\ pc = "call"
    /\ call = [chunk_type |-> "identificacao"]
    /\ text \in IdentTexts
    /\ result = Null
    /\ NoRun

\* the call returns the sentence; codigo, disciplina and carga_horaria are the
\* function's local variables when line 211 formats it
IdentReturns ==
    /\ pc = "call"
    /\ result' = [codigo        |-> ident_codigo(text),
                  disciplina    |-> ident_disciplina(text),
                  carga_horaria |-> ident_carga(text),
                  text          |-> clean_identificacao(text)]
    /\ pc' = "returned"
    /\ UNCHANGED <<text, run_vars>>

NextIdent == IdentReturns

SpecIdent == InitIdent /\ [][NextIdent]_vars

(***************************************************************************)
(* Properties                                                              *)
(***************************************************************************)
Configured == {collection_name(setup_embedding_models[n]) : n \in 1..NumModels}

Failed == {"extract_failed", "assembly_failed", "insert_failed"}

\* C1: once the directory driver has its document list, the run reaches its
\* end with every listed PDF attempted, whatever failed on the way.
C1_BatchCompletes ==
    (pc = "extract" /\ driver = "all")
        ~> (pc = "done" /\ \A n \in 1..Len(pdf_files) : outcome[n] # "pending")

\* a finished run in which a document failed and a later one was inserted
C1_Witness ==
    /\ pc = "done"
    /\ driver = "all"
    /\ \E a, b \in 1..Len(outcome) :
          a < b /\ outcome[a] \in Failed /\ outcome[b] = "inserted"

\* C2: every record a driver inserted carries the filename stem of its source
\* document as codigo, in its metadata and in its id.
C2_CodigoIsFilenameStem ==
    pc # "start" =>
        \A c \in Configured : \A r \in 1..Len(store[c]) :
            \E f \in 1..Len(pdf_files) :
                /\ store[c][r].metadata.source = Join(pdf_files[f])
                /\ store[c][r].metadata.codigo = Stem(pdf_files[f])
                /\ \E idx \in 0..Len(store[c]), m \in 1..NumModels :
                      store[c][r].id = ChunkId(Stem(pdf_files[f]), store[c][r].metadata.tipo,
                                               idx, setup_embedding_models[m])

\* C3: in a run of the directory driver no record is added under an id its
\* collection already holds.
C3_NoDuplicateId ==
    ~ /\ driver = "all"
      /\ Inserting
      /\ CurrentRecord.id \in Ids(store[collections[model_idx]])

\* C4: the ids built for one document are pairwise distinct over all pairs of
\* chunk position and model.
C4_IdsDistinctWithinDocument ==
    pc = "insert" =>
        \A a, b \in 1..Len(chunks) : \A m, n \in 1..NumModels :
            <<a, m>> # <<b, n>> =>
                ChunkId(codigo, chunks[a].tipo, a - 1, setup_embedding_models[m])
                    # ChunkId(codigo, chunks[b].tipo, b - 1, setup_embedding_models[n])

\* a document with two chunks of the same type is being inserted
C4_Witness ==
    /\ pc = "insert"
    /\ \E a, b \in 1..Len(chunks) : a < b /\ chunks[a].tipo = chunks[b].tipo

\* C5: when setup_chromadb has returned, every configured collection exists
\* and is empty, and no record of an earlier run is in one of them afterwards.
C5_SetupLeavesEmptyCollections ==
    /\ pc = "ready" => \A c \in Configured : c \in DOMAIN store /\ store[c] = <<>>
    /\ pc # "start" =>
          \A c \in Configured : \A r \in 1..Len(store[c]) : store[c][r].document # "old"

\* setup has returned on a store that held one configured collection and not
\* another
C5_Witness ==
    /\ pc = "ready"
    /\ \E c1, c2 \in Configured : c1 \in DOMAIN prior /\ c2 \notin DOMAIN prior

\* C6: after setup, every step leaves the records a collection holds in place:
\* a collection only grows at its end.
C6_AppendOnly ==
    [][pc # "start" =>
          /\ DOMAIN store' = DOMAIN store
          /\ \A c \in DOMAIN store :
                /\ Len(store[c]) <= Len(store'[c])
                /\ SubSeq(store'[c], 1, Len(store[c])) = store[c]]_vars

\* a document failed after some of its chunks were inserted, and they are there
C6_Witness ==
    \E n \in 1..Len(outcome) :
        /\ outcome[n] = "insert_failed"
        /\ \E c \in Configured : \E r \in 1..Len(store[c]) :
              store[c][r].metadata.source = Join(pdf_files[n])

\* C7: a document whose extraction returned None is reported, is not given to
\* the assembler, has no record in any collection, and the directory driver
\* has moved on to the next document.
C7_ExtractionFailureSkips ==
    \A n \in 1..Len(outcome) :
        outcome[n] = "extract_failed" =>
            /\ \E l \in 1..Len(log) :
                  log[l] = [msg |-> "Erro ao extrair texto do PDF",
                            file |-> Join(pdf_files[n])]
            /\ n \notin assembled
            /\ \A c \in Configured : \A r \in 1..Len(store[c]) :
                  store[c][r].metadata.source # Join(pdf_files[n])
            /\ (driver = "all" => doc_idx > n)

\* extraction failed for a document and the next one was inserted
C7_Witness ==
    \E n \in 1..Len(outcome) :
        /\ outcome[n] = "extract_failed"
        /\ n < Len(outcome)
        /\ outcome[n + 1] = "inserted"

\* C8: a run of the directory driver that ends without going through its
\* documents ends on a missing directory or a directory without PDFs, with a
\* diagnostic and an empty result and nothing extracted or inserted; any other
\* run ends with every document attempted.
C8_OnlyConfigErrorsHalt ==
    (driver = "all" /\ pc \in {"done", "crashed"}) =>
        IF dir_kind = "missing" \/ SelectSeq(listing, IsPdfName) = <<>>
        THEN /\ pc = "done"
             /\ result = <<>>
             /\ Len(log) = 1
             /\ outcome = <<>>
             /\ assembled = {}
             /\ \A c \in Configured : store[c] = <<>>
        ELSE /\ pc = "done"
             /\ \A n \in 1..Len(outcome) : outcome[n] # "pending"

\* C9: the chunk list process_pdf_content returns starts with an
\* identificacao chunk and holds no other one.
C9_OneIdentificationChunkFirst ==
    pc = "returned" =>
        /\ Len(chunks) >= 1
        /\ chunks[1].tipo = "identificacao"
        /\ \A n \in 2..Len(chunks) : chunks[n].tipo # "identificacao"

\* no code, name or hours could be derived and another section was found
C9_Witness ==
    /\ pc = "returned"
    /\ Len(chunks) >= 2
    /\ chunks[1].text = "Informações da disciplina N/A N/A. Carga Horária N/A"

\* C10: every chunk process_pdf_content returns that is not the
\* identificacao chunk has non-empty text.
C10_NoEmptySectionChunk ==
    pc = "returned" =>
        \A n \in 1..Len(chunks) :
            chunks[n].tipo # "identificacao" => chunks[n].text # ""

\* position of a chunk type in the layout of a syllabus
Rank(tipo) ==
    CASE tipo = "identificacao" -> 0
      [] tipo = "objetivo" -> 1
      [] tipo = "ementa" -> 2
      [] tipo = "conteudo_programatico" -> 3
      [] tipo = "bibliografia_basica" -> 4
      [] tipo = "bibliografia_complementar" -> 5

Tipos ==
    {"identificacao", "objetivo", "ementa", "conteudo_programatico",
     "bibliografia_basica", "bibliografia_complementar"}

\* C11: in a returned chunk list the types follow the layout order
\* identificacao, objetivo, ementa, conteudo_programatico, bibliografia_basica,
\* bibliografia_complementar, and only conteudo_programatico occurs more than once.
C11_ChunkOrder ==
    pc = "returned" =>
        /\ \A n \in 1..Len(chunks) : chunks[n].tipo \in Tipos
        /\ \A a, b \in 1..Len(chunks) :
              a < b => /\ Rank(chunks[a].tipo) <= Rank(chunks[b].tipo)
                       /\ (chunks[a].tipo = chunks[b].tipo
                              => chunks[a].tipo = "conteudo_programatico")

\* a returned list with every type, two topics among them
C11_Witness ==
    /\ pc = "returned"
    /\ {chunks[n].tipo : n \in 1..Len(chunks)} = Tipos
    /\ \E a, b \in 1..Len(chunks) :
          a < b /\ chunks[a].tipo = chunks[b].tipo

\* C12: while a document's chunks are inserted, every chunk's metadata is the
\* document-level metadata as process_pdf_content returned it, with secao added
\* on conteudo_programatico chunks only; the document-level metadata has no
\* secao, and the single-document driver's source and codigo are in it alone.
C12_ChunkMetadataIndependent ==
    pc = "insert" =>
        LET base == PdfContent[text][source].metadata
        IN /\ "secao" \notin DOMAIN metadata
           /\ driver = "single" =>
                 /\ "source" \in DOMAIN metadata
                 /\ metadata["source"] = Join(source)
                 /\ metadata["codigo"] = Stem(source)
           /\ \A n \in 1..Len(chunks) :
                 /\ DOMAIN chunks[n].metadata =
                       DOMAIN base \cup (IF chunks[n].tipo = "conteudo_programatico"
                                         THEN {"secao"} ELSE {})
                 /\ \A key \in DOMAIN base : chunks[n].metadata[key] = base[key]

\* the single-document driver has written source and codigo, and the document
\* has a topic chunk besides the others
C12_Witness ==
    /\ pc = "insert"
    /\ driver = "single"
    /\ "source" \in DOMAIN metadata
    /\ \E a, b \in 1..Len(chunks) :
          /\ chunks[a].tipo = "conteudo_programatico"
          /\ chunks[b].tipo # "conteudo_programatico"

\* C13: when process_pdf_content has returned, the document metadata and every
\* chunk's metadata hold the same non-empty codigo: the code the extractor
\* matched in the text, else the filename without its extension.
C13_CodigoPopulated ==
    pc = "returned" =>
        LET c == FirstIdx(text, 1, ExtractorCodes)
            expected == IF c # 0 THEN text[c]
                        ELSE Join(SubSeq(source, 1, Len(source) - 1))
        IN /\ expected # ""
           /\ "codigo" \in DOMAIN metadata
           /\ metadata["codigo"] = expected
           /\ chunks # <<>>
           /\ \A n \in 1..Len(chunks) :
                 /\ "codigo" \in DOMAIN chunks[n].metadata
                 /\ chunks[n].metadata["codigo"] = expected

\* a returned text in which the extractor matched no code: its chunks, more
\* than one, carry the filename stem
C13_Witness ==
    /\ pc = "returned"
    /\ FirstIdx(text, 1, ExtractorCodes) = 0
    /\ source = <<"OP63P", ".pdf">>
    /\ Len(chunks) >= 2
    /\ chunks[2].metadata["codigo"] = "OP63P"

\* C14: cleaning a text that the default branch of clean_chunk_text returned
\* gives that text back.
C14_CleanIdempotent == pc = "recleaned" => result = text

\* C15: when the start marker does not occur in the text, the call of
\* extract_section_from_pdf raises nothing and returns the empty string,
\* whatever the markers, and the assembler makes no chunk of it.
C15_AbsentStartGivesEmpty ==
    (pc # "call" /\ FirstIdx(text, 1, Occ(call.section_start)) = 0) =>
        /\ pc = "returned"
        /\ result = <<>>
        /\ SectionChunks(text, <<>>, "objetivo",
                         call.section_start, call.section_end) = <<>>

\* C17: when the start marker occurs, the call returns the trimmed text
\* between its first occurrence and the nearest following terminator: the
\* given end marker or, when that does not follow, a fallback terminator or
\* the end of the text.
C17_SectionUpToTerminator ==
    LET p == FirstIdx(text, 1, Occ(call.section_start))
        given == IF call.section_end = Null THEN 0
                 ELSE FirstIdx(text, p + 1, Occ(call.section_end))
        fallback == FirstIdx(text, p + 1, FallbackEnd)
        e == IF given # 0 THEN given
             ELSE IF fallback # 0 THEN fallback ELSE Len(text) + 1
    IN (pc = "returned" /\ p # 0) => result = Strip(SubSeq(text, p + 1, e - 1))

\* the numbers a text of the model can hold
HourValues == {Join(d) : d \in UNION {[1..n -> Digit] : n \in 1..(MaxLen + 1)}}

\* C16: the identification branch returns "Informações da disciplina {code}
\* {name}. Carga Horária {hours} Horas" with no slot empty: each slot holds the
\* derived value or "N/A", and the sentence has this form whatever was found.
C16_SentenceForm ==
    pc = "returned" =>
        /\ result.codigo \in CleanerCodes \cup {NA}
        /\ result.disciplina # ""
        /\ \E hours \in HourValues \cup {NA} :
              result.text = "Informações da disciplina " \o result.codigo \o " "
                                \o result.disciplina \o ". Carga Horária "
                                \o hours \o " Horas"

\* C19: the course name is the capture of the first of the three patterns
\* (code-anchored, label-anchored, heading-anchored) whose capture is not empty
\* once tidied; a pattern that matched with an empty capture does not decide
\* the name.
C19_FirstNonEmptyCapture ==
    (pc = "returned" /\ result.codigo # NA) =>
        LET Cap(n) == NameCapture(text, n, result.codigo)
            N == {n \in 1..3 : Cap(n) # Null /\ NameTidy(Cap(n)) # <<>>}
        IN IF N # {}
           THEN \A n \in N : (\A k \in N : n <= k) =>
                                 result.disciplina = Join(NameTidy(Cap(n)))
           ELSE result.disciplina # ""

\* C18: after setup, every record in the collection "ementas-disciplinas_" + m
\* comes from one chunk of one document: it was embedded with model m, its id
\* is "{codigo}_{tipo}_{i}_{m}" with i the zero-based position of the chunk in
\* the document's whole chunk list, its text is the chunk's text and its
\* metadata the chunk's metadata with source, tipo and the driver's codigo
\* written over it.
C18_RecordsOfModel ==
    pc # "start" =>
        \A m \in 1..NumModels :
            LET name == setup_embedding_models[m]
                coll == "ementas-disciplinas_" \o name
            IN coll \in DOMAIN store =>
                 \A k \in 1..Len(store[coll]) :
                    LET r == store[coll][k]
                    IN \E f \in Files, t \in DocTexts :
                          /\ r.metadata["source"] = Join(f)
                          /\ ~PdfContent[t][f].raised
                          /\ \E i \in 0..(Len(PdfContent[t][f].chunks) - 1) :
                                LET chunk == PdfContent[t][f].chunks[i + 1]
                                    cod == IF driver = "all"
                                           THEN PdfContent[t][f].metadata["codigo"]
                                           ELSE Join(SubSeq(f, 1, Len(f) - 1))
                                IN /\ r.id = cod \o "_" \o chunk.tipo \o "_"
                                                \o ToString(i) \o "_" \o name
                                   /\ r.embedding = <<name, chunk.text>>
                                   /\ r.document = chunk.text
                                   /\ DOMAIN r.metadata =
                                         DOMAIN chunk.metadata \cup {"source", "tipo", "codigo"}
                                   /\ r.metadata["tipo"] = chunk.tipo
                                   /\ r.metadata["codigo"] = cod
                                   /\ \A key \in DOMAIN chunk.metadata
                                                \ {"source", "tipo", "codigo"} :
                                         r.metadata[key] = chunk.metadata[key]

\* a finished run that left, in the collections of two models, records of a
\* chunk that is not the first of its document
C18_Witness ==
    /\ pc = "done"
    /\ \E c1, c2 \in Configured :
          /\ c1 # c2
          /\ c1 \in DOMAIN store
          /\ c2 \in DOMAIN store
          /\ Len(store[c1]) >= 2
          /\ Len(store[c2]) >= 2
          /\ store[c1][2].metadata["tipo"] # "identificacao"
          /\ store[c2][2].metadata["tipo"] # "identificacao"

\* C20: when process_pdf_content has returned, the metadata has disciplina:
\* the extractor's value if that is not empty; else the text captured after
\* the codigo up to a terminator keyword, when the codigo occurs in the text;
\* else the text captured after a "Disciplina" label, when there is one; else
\* "Disciplina " followed by the codigo.
C20_DisciplinaFallback ==
    pc = "returned" =>
        LET ex  == extract_metadata_from_header(text)
            cod == metadata["codigo"]
            i   == FirstIdx(text, 1, {cod})
            lab == LabelCapture(text)
            expected ==
                IF "disciplina" \in DOMAIN ex /\ ex["disciplina"] # ""
                THEN ex["disciplina"]
                ELSE IF i # 0
                THEN Join(Strip(SubSeq(text, i + 1,
                                       LazyEnd(text, i + 1, AssemblerStops) - 1)))
                ELSE IF lab # Null THEN Join(Strip(lab))
                ELSE "Disciplina " \o cod
        IN /\ "disciplina" \in DOMAIN metadata
           /\ metadata["disciplina"] = expected

\* a returned text without a code the extractor matches that holds both the
\* filename's code and a label: the name is the one captured after the code
C20_Witness ==
    /\ pc = "returned"
    /\ "disciplina" \notin DOMAIN extract_metadata_from_header(text)
    /\ FirstIdx(text, 1, {metadata["codigo"]}) # 0
    /\ LabelCapture(text) # Null
    /\ metadata["disciplina"] # ""
    /\ metadata["disciplina"] # Join(Strip(LabelCapture(text)))

\* the records of document f in the collection of the k-th configured model
RecordsOf(k, f) ==
    SelectSeq(store["ementas-disciplinas_" \o setup_embedding_models[k]],
              LAMBDA r : r.metadata["source"] = Join(f))

\* C21: a document's chunks go, in chunk order, into the collection of the
\* k-th model before any goes into that of the (k+1)-th: a later collection
\* holds records of the current document only when the earlier one holds them
\* all; at every point the number of a document's records does not increase
\* along the model order; and a finished run in which no document failed
\* leaves all collections with the same number of records.
C21_ModelMajor ==
    pc \notin {"start", "crashed"} =>
        /\ \A f \in Files : \A k \in 1..(NumModels - 1) :
              Len(RecordsOf(k, f)) >= Len(RecordsOf(k + 1, f))
        /\ pc = "insert" =>
              /\ \A k \in 1..(NumModels - 1) :
                    RecordsOf(k + 1, source) # <<>> =>
                        Len(RecordsOf(k, source)) = Len(chunks)
              /\ \A k \in 1..NumModels :
                    \A j \in 1..Len(RecordsOf(k, source)) :
                        RecordsOf(k, source)[j].document = chunks[j].text
        /\ (pc = "done" /\ \A n \in 1..Len(outcome) : outcome[n] \notin Failed) =>
              \A k \in 1..(NumModels - 1) :
                  Len(store["ementas-disciplinas_" \o setup_embedding_models[k]])
                    = Len(store["ementas-disciplinas_" \o setup_embedding_models[k + 1]])

\* documents of the directory driver whose assembly completed
Completed == {n \in 1..Len(outcome) : outcome[n] \in {"inserted", "insert_failed"}}

\* C22: the directory driver's mapping gets a document's entry, its derived
\* codigo with its chunk list, in the step in which assembly succeeds, before
\* anything of the document is stored; no other step of the loop changes the
\* mapping, so a failed insertion keeps the entry and a skipped document never
\* has one; the mapping is what the driver returns.
C22_MappingFilledAtAssembly ==
    /\ [](driver = "all" =>
            /\ pc = "insert" =>
                  /\ codigo \in DOMAIN chunks_por_disciplina
                  /\ chunks_por_disciplina[codigo] = chunks
            /\ (pc = "done" /\ pdf_files # <<>>) =>
                  /\ result = chunks_por_disciplina
                  /\ (DOMAIN result = {}) <=> (Completed = {})
                  /\ Cardinality(DOMAIN result) <= Cardinality(Completed))
    /\ [][driver = "all" =>
            /\ (pc = "assemble" /\ pc' = "insert") =>
                  /\ chunks_por_disciplina' =
                        [c \in DOMAIN chunks_por_disciplina
                                 \cup {PdfContent[text][source].metadata["codigo"]} |->
                            IF c = PdfContent[text][source].metadata["codigo"]
                            THEN PdfContent[text][source].chunks
                            ELSE chunks_por_disciplina[c]]
                  /\ store' = store
            /\ (pc \in {"extract", "insert"} \/ (pc = "assemble" /\ pc' # "insert")) =>
                  chunks_por_disciplina' = chunks_por_disciplina]_vars

\* the directory driver has returned a mapping with one key after a run in
\* which one document was skipped at extraction and the other failed while its
\* chunks were inserted
C22_Witness ==
    /\ pc = "done"
    /\ driver = "all"
    /\ Cardinality(DOMAIN result) = 1
    /\ \E a, b \in 1..Len(outcome) :
          /\ outcome[a] \in {"extract_failed", "extract_empty"}
          /\ outcome[b] = "insert_failed"

\* C23: setup_chromadb leaves every collection that is not named
\* "ementas-disciplinas_" + a configured model as the run found it, records
\* included, and returns one handle per configured model, in the order of the
\* model list.
C23_SetupFrame ==
    pc = "ready" =>
        /\ \A c \in DOMAIN prior :
              (\A n \in 1..NumModels :
                    c # "ementas-disciplinas_" \o setup_embedding_models[n])
                  => c \in DOMAIN store /\ store[c] = prior[c]
        /\ DOMAIN store =
              DOMAIN prior \cup {"ementas-disciplinas_" \o setup_embedding_models[n] :
                                    n \in 1..NumModels}
        /\ Len(collections) = NumModels
        /\ \A n \in 1..NumModels :
              collections[n] = "ementas-disciplinas_" \o setup_embedding_models[n]

\* setup has returned on a store that held a configured collection, which it
\* replaced, beside a foreign one with a record
C23_Witness ==
    /\ pc = "ready"
    /\ Foreign \in DOMAIN prior
    /\ prior[Foreign] # <<>>
    /\ \E c \in Configured : c \in DOMAIN prior /\ prior[c] # <<>> /\ store[c] = <<>>

====
